---- MODULE Spec2Model ----
(***************************************************************************)
(* Model of novelwriter/dialogs/wordlist.py: the GuiWordList dialog that   *)
(* edits a project's user word list.                                       *)
(*                                                                         *)
(* A text is a sequence of one-character strings.  The list box is the     *)
(* sorted QListWidget of the dialog (its items and the rows selected).     *)
(* The persistent store is the word list the UserDictionary commits.       *)
(***************************************************************************)
EXTENDS Integers, Sequences, FiniteSets, TLC

VARIABLES
    pc,          \* "Editing", "SavedClosed" or "Discarded"
    listBox,     \* self.listBox: [items: sequence of texts, sel: set of rows]
    changed,     \* self._changed: "unset" until _addWord sets it to "True"
    winSize,     \* the dialog's width and height
    store,       \* the committed user dictionary of the project
    options,     \* SHARED.project.options, group "GuiWordList"
    disk,        \* the text files the import and export dialogs can name
    reported,    \* what the last handler sent through SHARED.info / SHARED.error
    log,         \* the persistent effects of the session, in order
    storeAtOpen, \* the store as it was when the dialog was constructed
    lastOp       \* the last handler or user event that ran

vars == <<pc, listBox, changed, winSize, store, options, disk, reported,
          log, storeAtOpen, lastOp>>

-----------------------------------------------------------------------------
(* Bounds *)

\* The user stops adding when the list box holds this many items.
MaxView == 3

-----------------------------------------------------------------------------
(* Texts: str.strip, str.split, str.join and the order of QString *)

Whitespace == {" ", "\n"}

Code(c) ==
    CASE c = "\n" -> 10
      [] c = " "  -> 32
      [] c = "A"  -> 65
      [] c = "a"  -> 97

RECURSIVE LStrip(_)
LStrip(s) ==
    IF s # <<>> /\ Head(s) \in Whitespace THEN LStrip(Tail(s)) ELSE s

RECURSIVE RStrip(_)
RStrip(s) ==
    IF s # <<>> /\ s[Len(s)] \in Whitespace
    THEN RStrip(SubSeq(s, 1, Len(s) - 1))
    ELSE s

\* str.strip()
Strip(s) == RStrip(LStrip(s))

RECURSIVE SplitFrom(_, _, _)
SplitFrom(s, cur, acc) ==
    LET flushed == IF cur = <<>> THEN acc ELSE Append(acc, cur)
    IN  IF s = <<>> THEN flushed
        ELSE IF Head(s) \in Whitespace
             THEN SplitFrom(Tail(s), <<>>, flushed)
             ELSE SplitFrom(Tail(s), Append(cur, Head(s)), acc)

\* str.split() without arguments: the runs of non-whitespace characters
Split(s) == SplitFrom(s, <<>>, <<>>)

RECURSIVE Join(_, _)
\* sep.join(ws)
Join(sep, ws) ==
    IF ws = <<>> THEN <<>>
    ELSE IF Len(ws) = 1 THEN ws[1]
         ELSE ws[1] \o sep \o Join(sep, Tail(ws))

RECURSIVE TextLess(_, _)
\* the order the sorted list box keeps: code units, case-sensitive
TextLess(s, t) ==
    IF t = <<>> THEN FALSE
    ELSE IF s = <<>> THEN TRUE
         ELSE IF Head(s) = Head(t) THEN TextLess(Tail(s), Tail(t))
              ELSE Code(Head(s)) < Code(Head(t))

Range(q) == {q[i] : i \in DOMAIN q}

-----------------------------------------------------------------------------
(* The list box *)

EmptyListBox == [items |-> <<>>, sel |-> {}]

\* listBox.addItem(w) with setSortingEnabled(True): w goes behind the items
\* that are not greater; the selected rows behind it move down by one
AddItem(lb, w) ==
    LET pos == 1 + Cardinality({i \in DOMAIN lb.items : ~TextLess(w, lb.items[i])})
    IN  [items |-> SubSeq(lb.items, 1, pos - 1) \o <<w>>
                   \o SubSeq(lb.items, pos, Len(lb.items)),
         sel   |-> {IF i >= pos THEN i + 1 ELSE i : i \in lb.sel}]

Lower(c) == IF c = "A" THEN "a" ELSE c
LowerText(s) == [i \in DOMAIN s |-> Lower(s[i])]

\* a findItems that matches as Qt.MatchFixedString does, ignoring case
FindItems_IgnoresCase(lb, w) ==
    {i \in DOMAIN lb.items : LowerText(lb.items[i]) = LowerText(w)}

\* listBox.findItems(w, Qt.MatchExactly): the rows whose text equals w
FindItems(lb, w) == {i \in DOMAIN lb.items : lb.items[i] = w}

\* listBox.takeItem(row)
TakeItem(lb, row) ==
    [items |-> SubSeq(lb.items, 1, row - 1) \o SubSeq(lb.items, row + 1, Len(lb.items)),
     sel   |-> {IF i > row THEN i - 1 ELSE i : i \in lb.sel \ {row}}]

\* an _addWord that does not look for the word in the list box
AddWord_NoDuplicateCheck(lb, word) ==
    IF word # <<>> THEN AddItem(lb, word) ELSE lb

\* _addWord: the list box after adding one word
AddWord(lb, word) ==
    IF word # <<>> /\ FindItems(lb, word) = {} THEN AddItem(lb, word) ELSE lb

\* _addWord: self._changed after adding one word
AddWordChanged(lb, word, ch) ==
    IF word # <<>> /\ FindItems(lb, word) = {} THEN "True" ELSE ch

RECURSIVE ListWordsFrom(_, _)
ListWordsFrom(items, result) ==
    IF items = <<>> THEN result
    ELSE LET word == Strip(Head(items))
         IN  ListWordsFrom(Tail(items),
                           IF word # <<>> THEN Append(result, word) ELSE result)

\* a _listWords whose loop stops one row short
ListWords_SkipsLastRow(lb) ==
    ListWordsFrom(SubSeq(lb.items, 1, Len(lb.items) - 1), <<>>)

\* _listWords: the stripped, non-empty texts of the items, in row order
ListWords(lb) == ListWordsFrom(lb.items, <<>>)

-----------------------------------------------------------------------------
(* The UserDictionary collaborator (novelwriter.core.spellcheck), by its   *)
(* contract: load, iteration, add with insert-or-ignore, save.  The store  *)
(* is kept as the sequence of words committed, so that a word stored twice *)
(* would show.                                                             *)

\* UserDictionary(project): a dictionary that holds no word yet
UserDictNew == <<>>

\* userDict.add(word): insert-or-ignore
UserDictAdd(d, word) == IF word \in Range(d) THEN d ELSE Append(d, word)

RECURSIVE UserDictLoadFrom(_, _)
UserDictLoadFrom(stored, d) ==
    IF stored = <<>> THEN d
    ELSE UserDictLoadFrom(Tail(stored), UserDictAdd(d, Head(stored)))

\* userDict.load(): the words of the committed store
UserDictLoad(stored) == UserDictLoadFrom(stored, UserDictNew)

\* userDict.save(): what is committed to storage
UserDictSave(d) == d

-----------------------------------------------------------------------------
(* Window geometry and project options.  CONFIG.pxInt and CONFIG.rpxInt   *)
(* scale by the GUI scale factor, which is taken to be 1.                  *)

MinSize == 250
DefaultWidth == 320
DefaultHeight == 340

Widths == {MinSize, DefaultWidth}
Heights == {DefaultHeight}

NoOptions == [k \in {} |-> 0]

\* pOptions.getInt("GuiWordList", key, default)
GetInt(opts, key, default) == IF key \in DOMAIN opts THEN opts[key] ELSE default

\* pOptions.setValue("GuiWordList", key, value)
SetValue(opts, key, value) ==
    [k \in DOMAIN opts \cup {key} |-> IF k = key THEN value ELSE opts[k]]

\* the size the constructor gives the dialog
InitialSize(opts) ==
    [width  |-> GetInt(opts, "winWidth", DefaultWidth),
     height |-> GetInt(opts, "winHeight", DefaultHeight)]

\* _saveGuiSettings: the options after the dialog's size is written
SaveGuiSettings(opts, size) ==
    SetValue(SetValue(opts, "winWidth", size.width), "winHeight", size.height)

-----------------------------------------------------------------------------
(* Files *)

NoPath == [stem |-> "", suffix |-> ""]

AlphaTxt == [stem |-> "alpha", suffix |-> ".txt"]
WordsTxt == [stem |-> "words", suffix |-> ".txt"]
WordsDat == [stem |-> "words", suffix |-> ".dat"]
WordsBare == [stem |-> "words", suffix |-> ""]

Paths == {AlphaTxt, WordsTxt, WordsDat, WordsBare}

\* Path(path).with_suffix(suffix)
WithSuffix(path, suffix) == [path EXCEPT !.suffix = suffix]

Absent == [kind |-> "absent", text |-> <<>>]
Binary == [kind |-> "binary", text |-> <<>>]
TextFile(t) == [kind |-> "text", text |-> t]

\* what the user can pick in the two file dialogs ("" when cancelled)
ImportPaths == {NoPath, AlphaTxt, WordsTxt, WordsDat}
ExportPaths == {NoPath, WordsBare, WordsDat}

\* what the user can type into the entry field
InputTexts ==
    { <<>>, <<" ">>, <<"a">>, <<"A">>, <<" ", "a", " ">>, <<"a", " ", "A">> }

InitialDisk ==
    [p \in Paths |->
        IF p = AlphaTxt THEN TextFile(<<"a", " ", "A", "\n", "a", " ">>)
        ELSE IF p = WordsDat THEN Binary
        ELSE Absent]

-----------------------------------------------------------------------------
(* The handlers, as functions of the state they read *)

RECURSIVE LoadItems(_, _)
LoadItems(d, lb) ==
    IF d = <<>> THEN lb ELSE LoadItems(Tail(d), AddItem(lb, Head(d)))

\* _loadWordList: the list box filled from the loaded dictionary
LoadWordList(stored) == LoadItems(UserDictLoad(stored), EmptyListBox)

Min(S) == CHOOSE x \in S : \A y \in S : x <= y

\* a _doAdd that does not strip the text of the entry field
DoAddBox_NoStrip(lb, text) ==
    LET cleared == [lb EXCEPT !.sel = {}]
        added   == AddWord(cleared, text)
        found   == FindItems(added, text)
    IN  IF found # {} THEN [added EXCEPT !.sel = {Min(found)}] ELSE added

\* _doAdd: the list box after the Add button, with `text` in the entry field
DoAddBox(lb, text) ==
    LET word    == Strip(text)
        cleared == [lb EXCEPT !.sel = {}]
        added   == AddWord(cleared, word)
        found   == FindItems(added, word)
    IN  IF found # {} THEN [added EXCEPT !.sel = {Min(found)}] ELSE added

RemoveAt(q, i) == SubSeq(q, 1, i - 1) \o SubSeq(q, i + 1, Len(q))

RECURSIVE TakeRows(_, _)
TakeRows(lb, rows) ==
    IF rows = {} THEN lb
    ELSE LET row == Min(rows)
         IN  TakeRows(IF row \in DOMAIN lb.items THEN TakeItem(lb, row) ELSE lb,
                      rows \ {row})

\* a _doDelete that takes the rows the selected items had before the loop
DoDeleteBox_StaleRows(lb) == TakeRows(lb, lb.sel)

RECURSIVE DeleteLoop(_, _, _)
\* the loop of _doDelete: ids[r] names the item now in row r, todo the items
\* of selectedItems() not yet taken; the order of the loop does not matter
DeleteLoop(lb, ids, todo) ==
    IF todo = {} THEN lb
    ELSE LET item == CHOOSE x \in todo : TRUE
             row  == CHOOSE r \in DOMAIN ids : ids[r] = item
         IN  DeleteLoop(TakeItem(lb, row), RemoveAt(ids, row), todo \ {item})

\* _doDelete: the list box after the Remove button
DoDeleteBox(lb) == DeleteLoop(lb, [r \in DOMAIN lb.items |-> r], lb.sel)

\* the set built in _importWords from the text of the file
ImportSet(text) == {Strip(w) : w \in Range(Split(text))}

RECURSIVE AddWords(_, _)
\* the loop of _importWords; the list box is sorted and _addWord ignores
\* what is present, so the order of the set does not show in the result
AddWords(lb, words) ==
    IF words = {} THEN lb
    ELSE LET w == CHOOSE x \in words : TRUE
         IN  AddWords(AddWord(lb, w), words \ {w})

ImportChanged(lb, words, ch) ==
    IF \E w \in words : AddWordChanged(lb, w, ch) # ch THEN "True" ELSE ch

RECURSIVE SaveLoop(_, _)
SaveLoop(words, d) ==
    IF words = <<>> THEN d ELSE SaveLoop(Tail(words), UserDictAdd(d, Head(words)))

\* a _doSave that loads the dictionary before it adds the listed words
SavedStore_LoadsFirst(lb) ==
    UserDictSave(SaveLoop(ListWords(lb), UserDictLoad(store)))

\* _doSave: what the new dictionary commits
SavedStore(lb) == UserDictSave(SaveLoop(ListWords(lb), UserDictNew))

\* _exportWords: the text written to the file
ExportText(lb) == Join(<<"\n">>, ListWords(lb))

view == listBox.items
Editing == pc = "Editing"

-----------------------------------------------------------------------------
(* The dialog as a state machine *)

ImportNote == "info: The import file must be a plain text file"
ReadError == "error: Could not read file."
WriteError == "error: Could not write file."

Init ==
    /\ pc = "Editing"
    /\ store = <<>>
    /\ options = NoOptions
    /\ disk = InitialDisk
    /\ reported = <<>>
    /\ listBox = LoadWordList(store)
    /\ changed = "unset"
    /\ winSize = InitialSize(options)
    /\ log = <<>>
    /\ storeAtOpen = store
    /\ lastOp = "open"

\* __init__: the main window opens the dialog again after it was closed
Open ==
    /\ ~Editing
    /\ pc' = "Editing"
    /\ winSize' = InitialSize(options)
    /\ listBox' = LoadWordList(store)
    /\ changed' = "unset"
    /\ log' = <<>>
    /\ storeAtOpen' = store
    /\ reported' = <<>>
    /\ lastOp' = "open"
    /\ UNCHANGED <<store, options, disk>>

\* the user drags the window to another size, not below the minimum
Resize(w, h) ==
    /\ Editing
    /\ w >= MinSize /\ h >= MinSize
    /\ winSize' = [width |-> w, height |-> h]
    /\ reported' = <<>>
    /\ lastOp' = "resize"
    /\ UNCHANGED <<pc, listBox, changed, store, options, disk, log, storeAtOpen>>

\* the user selects rows of the list box (ExtendedSelection)
Select(rows) ==
    /\ Editing
    /\ rows \subseteq DOMAIN listBox.items
    /\ listBox' = [listBox EXCEPT !.sel = rows]
    /\ reported' = <<>>
    /\ lastOp' = "select"
    /\ UNCHANGED <<pc, changed, winSize, store, options, disk, log, storeAtOpen>>

\* _doAdd with `text` in the entry field
DoAdd(text) ==
    /\ Editing
    /\ Len(listBox.items) < MaxView
    /\ listBox' = DoAddBox(listBox, text)
    /\ changed' = AddWordChanged(listBox, Strip(text), changed)
    /\ reported' = <<>>
    /\ lastOp' = "add"
    /\ UNCHANGED <<pc, winSize, store, options, disk, log, storeAtOpen>>

\* _doDelete
DoDelete ==
    /\ Editing
    /\ listBox' = DoDeleteBox(listBox)
    /\ reported' = <<>>
    /\ lastOp' = "delete"
    /\ UNCHANGED <<pc, changed, winSize, store, options, disk, log, storeAtOpen>>

\* closeEvent: the geometry is written and the dialog is closed
CloseEvent(state, effects) ==
    /\ options' = SaveGuiSettings(options, winSize)
    /\ log' = log \o effects \o <<"saveGuiSettings">>
    /\ pc' = state
    /\ reported' = <<>>
    /\ UNCHANGED <<listBox, changed, winSize>>

\* a _doSave that emits newWordListReady before the dictionary is saved
DoSave_EmitsBeforeSave ==
    /\ Editing
    /\ store' = SavedStore(listBox)
    /\ CloseEvent("SavedClosed", <<"newWordListReady.emit", "userDict.save">>)
    /\ lastOp' = "save"
    /\ UNCHANGED <<disk, storeAtOpen>>

\* _doSave; newWordListReady is delivered to its slots when it is emitted,
\* and qApp.processEvents() finds no user event waiting for the dialog
DoSave ==
    /\ Editing
    /\ store' = SavedStore(listBox)
    /\ CloseEvent("SavedClosed", <<"userDict.save", "newWordListReady.emit">>)
    /\ lastOp' = "save"
    /\ UNCHANGED <<disk, storeAtOpen>>

\* a close that writes the listed words as _doSave does
Close_SavesWords ==
    /\ Editing
    /\ store' = SavedStore(listBox)
    /\ CloseEvent("Discarded", <<>>)
    /\ lastOp' = "close"
    /\ UNCHANGED <<disk, storeAtOpen>>

\* the Close button, or the window's close box
Close ==
    /\ Editing
    /\ CloseEvent("Discarded", <<>>)
    /\ lastOp' = "close"
    /\ UNCHANGED <<store, disk, storeAtOpen>>

\* an _importWords that clears the list box before it reads the file
ImportWords_ClearsFirst(path) ==
    /\ Editing
    /\ lastOp' = "import"
    /\ IF path = NoPath
       THEN /\ reported' = <<ImportNote>>
            /\ UNCHANGED <<listBox, changed>>
       ELSE IF disk[path].kind # "text"
       THEN /\ reported' = <<ImportNote, ReadError>>
            /\ listBox' = EmptyListBox
            /\ UNCHANGED changed
       ELSE LET words == ImportSet(disk[path].text)
            IN  /\ Cardinality(words) <= MaxView
                /\ reported' = <<ImportNote>>
                /\ listBox' = AddWords(EmptyListBox, words)
                /\ changed' = ImportChanged(EmptyListBox, words, changed)
    /\ UNCHANGED <<pc, winSize, store, options, disk, log, storeAtOpen>>

\* _importWords with `path` returned by the file dialog
ImportWords(path) ==
    /\ Editing
    /\ lastOp' = "import"
    /\ IF path = NoPath
       THEN /\ reported' = <<ImportNote>>
            /\ UNCHANGED <<listBox, changed>>
       ELSE IF disk[path].kind # "text"
       THEN /\ reported' = <<ImportNote, ReadError>>
            /\ UNCHANGED <<listBox, changed>>
       ELSE LET words == ImportSet(disk[path].text)
            IN  /\ Len(listBox.items) + Cardinality(words) <= MaxView
                /\ reported' = <<ImportNote>>
                /\ listBox' = AddWords(listBox, words)
                /\ changed' = ImportChanged(listBox, words, changed)
    /\ UNCHANGED <<pc, winSize, store, options, disk, log, storeAtOpen>>

\* _exportWords with `path` returned by the file dialog; the write goes
\* through ("ok"), the file cannot be opened ("open"), or the write fails
\* after the file was opened and truncated ("write")
ExportWords(path, outcome) ==
    /\ Editing
    /\ lastOp' = "export"
    /\ IF path = NoPath
       THEN /\ outcome = "ok"
            /\ reported' = <<>>
            /\ UNCHANGED disk
       ELSE LET target == WithSuffix(path, ".txt")
            IN  CASE outcome = "ok" ->
                       /\ disk' = [disk EXCEPT ![target] = TextFile(ExportText(listBox))]
                       /\ reported' = <<>>
                  [] outcome = "open" ->
                       /\ reported' = <<WriteError>>
                       /\ UNCHANGED disk
                  [] outcome = "write" ->
                       /\ disk' = [disk EXCEPT ![target] = TextFile(<<>>)]
                       /\ reported' = <<WriteError>>
    /\ UNCHANGED <<pc, listBox, changed, winSize, store, options, log, storeAtOpen>>

Next ==
    \/ Open
    \/ \E w \in Widths, h \in Heights : Resize(w, h)
    \/ \E rows \in SUBSET (1..MaxView) : Select(rows)
    \/ \E text \in InputTexts : DoAdd(text)
    \/ DoDelete
    \/ DoSave
    \/ Close
    \/ \E path \in ImportPaths : ImportWords(path)
    \/ \E path \in ExportPaths, outcome \in {"ok", "open", "write"} :
           ExportWords(path, outcome)

Spec == Init /\ [][Next]_vars

-----------------------------------------------------------------------------
(* Properties *)

Occurrences(q, w) == Cardinality({i \in DOMAIN q : q[i] = w})

\* the items of the rows that are not selected, in row order
Unselected(lb) ==
    LET rows == DOMAIN lb.items \ lb.sel
        nth(k) == CHOOSE r \in rows : Cardinality({x \in rows : x <= r}) = k
    IN  [k \in 1..Cardinality(rows) |-> lb.items[nth(k)]]

ExportOutcomes == {"ok", "open", "write"}

\* C1: in every reachable state the list box holds no two items with the
\* same text (compared exactly, case-sensitively) and no item whose text
\* is empty or consists of whitespace only.
C1_ViewEntriesDistinctAndNonBlank ==
    /\ \A i, j \in DOMAIN view : i # j => view[i] # view[j]
    /\ \A i \in DOMAIN view : Strip(view[i]) # <<>>

C1_Witness ==
    /\ Editing /\ lastOp = "import"
    /\ Len(view) = 3
    /\ storeAtOpen # <<>>

\* C2: while the dialog is open and after it was closed without Save the
\* store is what it was when the dialog opened; a close without Save
\* writes the two geometry options and nothing else.
C2_CloseLeavesStore ==
    /\ pc # "SavedClosed" => store = storeAtOpen
    /\ pc = "Discarded" =>
          /\ log = <<"saveGuiSettings">>
          /\ options = [k \in {"winWidth", "winHeight"} |->
                           IF k = "winWidth" THEN winSize.width ELSE winSize.height]

C2_Witness ==
    /\ pc = "Discarded" /\ lastOp = "close"
    /\ changed = "True"
    /\ store # <<>>
    /\ Range(view) # Range(store)

\* C3: after Save every word that was listed when Save ran occurs in the
\* committed store exactly once.
C3_SaveStoresEachWordOnce ==
    pc = "SavedClosed" => \A w \in Range(view) : Occurrences(store, w) = 1

C3_Witness ==
    /\ pc = "SavedClosed" /\ lastOp = "save"
    /\ Len(view) >= 2
    /\ changed = "True"

\* C4: once an export has written the list box to words.txt, importing
\* that file into an empty list box gives the set of words that was
\* exported.
C4_ExportImportRoundTrip ==
    (/\ Editing /\ lastOp = "export"
     /\ disk[WordsTxt] = TextFile(ExportText(listBox)))
    => Range(AddWords(EmptyListBox, ImportSet(disk[WordsTxt].text)).items)
          = Range(view)

\* C5: an import that reads its file leaves in the list box the union of
\* the words listed before and the whitespace-delimited tokens of the
\* file, each once.
C5_ImportIsUnion ==
    [][\A path \in ImportPaths :
          (ImportWords(path) /\ path # NoPath /\ disk[path].kind = "text") =>
             /\ Range(view') = Range(view) \cup Range(Split(disk[path].text))
             /\ \A w \in Range(view') : Occurrences(view', w) = 1]_vars

C5_Witness ==
    /\ Editing /\ lastOp = "import" /\ reported = <<ImportNote>>
    /\ storeAtOpen = <<>>
    /\ view = << <<"A">>, <<"a">> >>

\* C6: the Add button changes the items iff the stripped text is not empty
\* and no item has exactly that text; then the stripped text is the one
\* item added; otherwise the items stay as they are.
C6_AddWordIffNew ==
    [][\A text \in InputTexts :
          DoAdd(text) =>
             LET word == Strip(text)
             IN  IF word # <<>> /\ word \notin Range(view)
                 THEN /\ Len(view') = Len(view) + 1
                      /\ Range(view') = Range(view) \cup {word}
                      /\ Occurrences(view', word) = 1
                 ELSE view' = view]_vars

C6_Witness ==
    /\ Editing /\ lastOp = "add"
    /\ changed = "unset"
    /\ listBox.sel # {}
    /\ Len(view) >= 2

\* C7: an import that cannot read its file reports the error and leaves
\* list box, store and dialog state as they were; an export leaves them as
\* they were whether it succeeds or not, and reports a failed write.
C7_FailedFileOpsLeaveView ==
    [][/\ \A path \in ImportPaths :
             (ImportWords(path) /\ path # NoPath /\ disk[path].kind # "text") =>
                /\ listBox' = listBox
                /\ store' = store
                /\ pc' = "Editing"
                /\ ReadError \in Range(reported')
       /\ \A path \in ExportPaths, outcome \in ExportOutcomes :
             ExportWords(path, outcome) =>
                /\ listBox' = listBox
                /\ store' = store
                /\ pc' = "Editing"
                /\ (outcome # "ok" => WriteError \in Range(reported'))]_vars

C7_Witness ==
    /\ Editing /\ lastOp = "import"
    /\ ReadError \in Range(reported)
    /\ changed = "True"
    /\ Len(view) >= 2

\* C8: the session's effects are none while the dialog is open, the
\* geometry alone after a close without Save, and after Save the committed
\* dictionary, then the signal, then the geometry; both closes leave the
\* dialog's size in the options.
C8_SaveOrderAndSignal ==
    /\ Editing => log = <<>>
    /\ pc = "Discarded" => log = <<"saveGuiSettings">>
    /\ pc = "SavedClosed" =>
          log = <<"userDict.save", "newWordListReady.emit", "saveGuiSettings">>
    /\ ~Editing => /\ GetInt(options, "winWidth", 0) = winSize.width
                   /\ GetInt(options, "winHeight", 0) = winSize.height

C8_Witness ==
    /\ pc = "SavedClosed" /\ lastOp = "save"
    /\ Len(log) = 3 /\ log[2] = "newWordListReady.emit"
    /\ winSize.width # DefaultWidth

\* C9: the Remove button leaves exactly the items that were not selected,
\* in their order, changes nothing when no row is selected, and leaves the
\* store alone.
C9_DeleteRemovesSelected ==
    [][DoDelete =>
          /\ view' = Unselected(listBox)
          /\ (listBox.sel = {} => view' = view)
          /\ store' = store]_vars

C9_Witness ==
    /\ Editing /\ lastOp = "delete"
    /\ view # <<>>
    /\ \E w \in Range(storeAtOpen) : w \notin Range(view)

\* C10: after Save the store holds exactly the words listed: a word of
\* the store that was removed in the dialog is gone, and a Save of the list
\* box as it was loaded leaves the set of stored words as it was.
C10_SaveReplacesStore ==
    pc = "SavedClosed" =>
       /\ Range(store) = Range(view)
       /\ (view = LoadWordList(storeAtOpen).items => Range(store) = Range(storeAtOpen))

C10_Witness ==
    /\ pc = "SavedClosed" /\ lastOp = "save"
    /\ store # <<>>
    /\ \E w \in Range(storeAtOpen) : w \notin Range(store)

====
